---------------------------- MODULE Spec2Model ----------------------------
(***************************************************************************)
(* A model of hmdb_endo_flagger_v2.py: the streaming record walker         *)
(* (extract_metabolites), the field extractor, the term collector, the     *)
(* lexical scorer (compute_confidence) and the driver (main).              *)
(*                                                                         *)
(* Text is a sequence of one-character strings, so that strip(), lower(),  *)
(* upper(), join(), sorted() and the substring test `kw in text` are       *)
(* computed character by character.  A confidence is an integer number of  *)
(* millionths: the IEEE double that 1 / (1 + math.exp(-score)) returns for *)
(* an integer score, rounded to six decimals.                              *)
(***************************************************************************)
EXTENDS Integers, Sequences, FiniteSets, TLC

----------------------------------------------------------------------------
(* Characters                                                              *)

\* str.lower() on the characters the model uses (ASCII letters).
LowerOf ==
    "A" :> "a" @@ "B" :> "b" @@ "C" :> "c" @@ "D" :> "d" @@ "E" :> "e" @@ "F" :> "f" @@
    "G" :> "g" @@ "H" :> "h" @@ "I" :> "i" @@ "J" :> "j" @@ "K" :> "k" @@ "L" :> "l" @@
    "M" :> "m" @@ "N" :> "n" @@ "O" :> "o" @@ "P" :> "p" @@ "Q" :> "q" @@ "R" :> "r" @@
    "S" :> "s" @@ "T" :> "t" @@ "U" :> "u" @@ "V" :> "v" @@ "W" :> "w" @@ "X" :> "x" @@
    "Y" :> "y" @@ "Z" :> "z"

\* str.upper() on the characters the model uses.
UpperOf ==
    "a" :> "A" @@ "b" :> "B" @@ "c" :> "C" @@ "d" :> "D" @@ "e" :> "E" @@ "f" :> "F" @@
    "g" :> "G" @@ "h" :> "H" @@ "i" :> "I" @@ "j" :> "J" @@ "k" :> "K" @@ "l" :> "L" @@
    "m" :> "M" @@ "n" :> "N" @@ "o" :> "O" @@ "p" :> "P" @@ "q" :> "Q" @@ "r" :> "R" @@
    "s" :> "S" @@ "t" :> "T" @@ "u" :> "U" @@ "v" :> "V" @@ "w" :> "W" @@ "x" :> "X" @@
    "y" :> "Y" @@ "z" :> "Z"

\* The code point of a character: the order sorted() compares strings by.
CodePoint ==
    "\t" :> 9 @@ "\n" :> 10 @@ " " :> 32 @@ "-" :> 45 @@ "." :> 46 @@ "0" :> 48 @@
    "1" :> 49 @@ "2" :> 50 @@ "3" :> 51 @@ "4" :> 52 @@ "5" :> 53 @@ "6" :> 54 @@
    "7" :> 55 @@ "8" :> 56 @@ "9" :> 57 @@ ";" :> 59 @@ "A" :> 65 @@ "B" :> 66 @@
    "C" :> 67 @@ "D" :> 68 @@ "E" :> 69 @@ "F" :> 70 @@ "G" :> 71 @@ "H" :> 72 @@
    "I" :> 73 @@ "J" :> 74 @@ "K" :> 75 @@ "L" :> 76 @@ "M" :> 77 @@ "N" :> 78 @@
    "O" :> 79 @@ "P" :> 80 @@ "Q" :> 81 @@ "R" :> 82 @@ "S" :> 83 @@ "T" :> 84 @@
    "U" :> 85 @@ "V" :> 86 @@ "W" :> 87 @@ "X" :> 88 @@ "Y" :> 89 @@ "Z" :> 90 @@
    "_" :> 95 @@ "a" :> 97 @@ "b" :> 98 @@ "c" :> 99 @@ "d" :> 100 @@ "e" :> 101 @@
    "f" :> 102 @@ "g" :> 103 @@ "h" :> 104 @@ "i" :> 105 @@ "j" :> 106 @@ "k" :> 107 @@
    "l" :> 108 @@ "m" :> 109 @@ "n" :> 110 @@ "o" :> 111 @@ "p" :> 112 @@ "q" :> 113 @@
    "r" :> 114 @@ "s" :> 115 @@ "t" :> 116 @@ "u" :> 117 @@ "v" :> 118 @@ "w" :> 119 @@
    "x" :> 120 @@ "y" :> 121 @@ "z" :> 122 @@ "{" :> 123 @@ "}" :> 125

\* The characters str.strip() removes.
Whitespace ==
    {" ", "\t", "\n"}

lower_char(c) ==
    IF c \in DOMAIN LowerOf THEN LowerOf[c] ELSE c

upper_char(c) ==
    IF c \in DOMAIN UpperOf THEN UpperOf[c] ELSE c

\* s.lower()
lower(s) ==
    [i \in 1..Len(s) |-> lower_char(s[i])]

\* s.upper()
upper(s) ==
    [i \in 1..Len(s) |-> upper_char(s[i])]

\* s.strip(): drop the leading and the trailing whitespace.
strip(s) ==
    LET keep == {i \in 1..Len(s) : s[i] \notin Whitespace}
    IN  IF keep = {} THEN <<>>
        ELSE LET lo == CHOOSE i \in keep : \A j \in keep : i <= j
                 hi == CHOOSE i \in keep : \A j \in keep : j <= i
             IN  SubSeq(s, lo, hi)

\* sep.join(parts), parts a sequence of strings.
RECURSIVE join(_, _)
join(sep, parts) ==
    IF Len(parts) = 0 THEN <<>>
    ELSE IF Len(parts) = 1 THEN parts[1]
    ELSE parts[1] \o sep \o join(sep, Tail(parts))

\* Mutant of Contains: the keyword matched only as a whole word.
Contains_whole_word(kw, text) ==
    \E i \in 1..(Len(text) - Len(kw) + 1) :
        /\ \A j \in 1..Len(kw) : text[i + j - 1] = kw[j]
        /\ i = 1 \/ text[i - 1] = " "
        /\ i + Len(kw) - 1 = Len(text) \/ text[i + Len(kw)] = " "

\* `kw in text`: kw occurs in text as a contiguous substring, case-sensitively.
Contains(kw, text) ==
    \E i \in 1..(Len(text) - Len(kw) + 1) :
        \A j \in 1..Len(kw) : text[i + j - 1] = kw[j]

----------------------------------------------------------------------------
(* The lexical scorer                                                      *)

POSITIVE_KEYWORDS ==
    << [kw |-> <<"e", "n", "d", "o", "g", "e", "n", "o", "u", "s">>, w |-> 2],
       [kw |-> <<"b", "i", "o", "s", "y", "n", "t", "h", "e", "s", "i", "z", "e", "d">>, w |-> 2],
       [kw |-> <<"d", "e", " ", "n", "o", "v", "o">>, w |-> 1],
       [kw |-> <<"p", "r", "e", "s", "e", "n", "t", " ", "i", "n", " ", "h", "u", "m", "a", "n">>, w |-> 3],
       [kw |-> <<"h", "u", "m", "a", "n">>, w |-> 1],
       [kw |-> <<"h", "o", "m", "o", " ", "s", "a", "p", "i", "e", "n", "s">>, w |-> 3],
       [kw |-> <<"m", "a", "m", "m", "a", "l", "i", "a", "n">>, w |-> 1],
       [kw |-> <<"b", "l", "o", "o", "d">>, w |-> 2],
       [kw |-> <<"p", "l", "a", "s", "m", "a">>, w |-> 2],
       [kw |-> <<"s", "e", "r", "u", "m">>, w |-> 2],
       [kw |-> <<"u", "r", "i", "n", "e">>, w |-> 2],
       [kw |-> <<"c", "s", "f">>, w |-> 2],
       [kw |-> <<"t", "i", "s", "s", "u", "e">>, w |-> 1],
       [kw |-> <<"l", "i", "v", "e", "r">>, w |-> 1],
       [kw |-> <<"k", "i", "d", "n", "e", "y">>, w |-> 1],
       [kw |-> <<"b", "r", "a", "i", "n">>, w |-> 1],
       [kw |-> <<"m", "e", "t", "a", "b", "o", "l", "i", "z", "e", "d", " ", "b", "y">>, w |-> 2],
       [kw |-> <<"s", "y", "n", "t", "h", "e", "s", "i", "z", "e", "d">>, w |-> 2],
       [kw |-> <<"b", "i", "o", "s", "y", "n", "t", "h", "e", "s", "i", "s">>, w |-> 2] >>

NEGATIVE_KEYWORDS ==
    << [kw |-> <<"e", "x", "o", "g", "e", "n", "o", "u", "s">>, w |-> 2],
       [kw |-> <<"x", "e", "n", "o", "b", "i", "o", "t", "i", "c">>, w |-> 2],
       [kw |-> <<"p", "h", "a", "r", "m", "a", "c", "e", "u", "t", "i", "c", "a", "l">>, w |-> 2],
       [kw |-> <<"d", "r", "u", "g">>, w |-> 2],
       [kw |-> <<"t", "o", "x", "i", "n">>, w |-> 1],
       [kw |-> <<"t", "o", "x", "i", "c">>, w |-> 2],
       [kw |-> <<"p", "e", "s", "t", "i", "c", "i", "d", "e">>, w |-> 2],
       [kw |-> <<"b", "a", "c", "t", "e", "r", "i", "a">>, w |-> 1],
       [kw |-> <<"f", "u", "n", "g", "u", "s">>, w |-> 2],
       [kw |-> <<"d", "i", "e", "t", "a", "r", "y">>, w |-> 1],
       [kw |-> <<"p", "l", "a", "n", "t">>, w |-> 1],
       [kw |-> <<"m", "i", "c", "r", "o", "b", "i", "a", "l">>, w |-> 1],
       [kw |-> <<"e", "n", "v", "i", "r", "o", "n", "m", "e", "n", "t", "a", "l">>, w |-> 1] >>

THRESHOLD_DEFAULT ==
    850000

\* 1 / (1 + math.exp(-score)) for score = -33 .. 33, in millionths.
LogisticMicro ==
    << 0, 0, 0, 0, 0, 0, 0, 0, 0, 0, 0, 0, 0, 0, 0, 0, 0, 0, 0, 1, 2, 6, 17, 45, 123, 335,
       911, 2473, 6693, 17986, 47426, 119203, 268941, 500000, 731059, 880797, 952574, 982014,
       993307, 997527, 999089, 999665, 999877, 999955, 999983, 999994, 999998, 999999,
       1000000, 1000000, 1000000, 1000000, 1000000, 1000000, 1000000, 1000000, 1000000,
       1000000, 1000000, 1000000, 1000000, 1000000, 1000000, 1000000, 1000000, 1000000,
       1000000 >>

\* Mutant of scan_keywords: the weight applied once per occurrence.
RECURSIVE scan_keywords_per_occurrence(_, _, _, _)
scan_keywords_per_occurrence(keywords, text, sign, score) ==
    IF keywords = <<>> THEN score
    ELSE scan_keywords_per_occurrence(Tail(keywords), text, sign,
             score + sign * Head(keywords).w
                 * Cardinality({i \in 1..(Len(text) - Len(Head(keywords).kw) + 1) :
                       \A j \in 1..Len(Head(keywords).kw) :
                           text[i + j - 1] = Head(keywords).kw[j]}))

\* One keyword loop of compute_confidence: score += sign * w for every keyword
\* of the table that occurs in text.
RECURSIVE scan_keywords(_, _, _, _)
scan_keywords(keywords, text, sign, score) ==
    IF keywords = <<>> THEN score
    ELSE scan_keywords(Tail(keywords), text, sign,
             IF Contains(Head(keywords).kw, text)
             THEN score + sign * Head(keywords).w
             ELSE score)

\* The score compute_confidence holds before the sigmoid transform.
net_score(text) ==
    scan_keywords(NEGATIVE_KEYWORDS, text, -1,
                  scan_keywords(POSITIVE_KEYWORDS, text, 1, 0))

\* Mutant of sigmoid: the exponent's sign lost, 1 / (1 + math.exp(score)).
sigmoid_sign_lost(score) ==
    IF score > 33 THEN 0
    ELSE IF score < -33 THEN 1000000
    ELSE LogisticMicro[34 - score]

\* The sigmoid transform.  math.exp(-score) raises OverflowError above
\* exp(709.78); beyond +-33 the quotient rounds to 1.000000 or 0.000000.
sigmoid(score) ==
    IF -score > 709 THEN (IF score > 0 THEN 1000000 ELSE 0)
    ELSE IF score > 33 THEN 1000000
    ELSE IF score < -33 THEN 0
    ELSE LogisticMicro[score + 34]

compute_confidence(text) ==
    sigmoid(net_score(text))

\* flag = int(conf >= THRESHOLD_DEFAULT)
flag_of(conf) ==
    IF conf >= THRESHOLD_DEFAULT THEN 1 ELSE 0

Digits ==
    <<"0", "1", "2", "3", "4", "5", "6", "7", "8", "9">>

\* f"{conf:.3f}": round to three decimals, print one integer digit.
format_conf(conf) ==
    LET milli == (conf + 500) \div 1000
    IN  << Digits[(milli \div 1000) + 1], ".",
           Digits[((milli \div 100) % 10) + 1],
           Digits[((milli \div 10) % 10) + 1],
           Digits[(milli % 10) + 1] >>

----------------------------------------------------------------------------
(* Elements.  A node is [tag, text]; text <<>> stands for an element with  *)
(* no text (None or '').  A record element carries desc, its descendants   *)
(* in document order: the order find(), findall() and iter() visit them.   *)

\* tag.rsplit('}', 1)[-1] if '}' in tag else tag
local_name(tag) ==
    LET close == {i \in 1..Len(tag) : tag[i] = "}"}
    IN  IF close = {} THEN tag
        ELSE LET last == CHOOSE i \in close : \A j \in close : j <= i
             IN  SubSeq(tag, last + 1, Len(tag))

\* elem.findall('.//{*}tag_name'): the descendants named tag_name in any
\* namespace or none, in document order.
findall(elem, tag_name) ==
    SelectSeq(elem.desc, LAMBDA node : local_name(node.tag) = tag_name)

\* Mutant of extract_text: the text lower-cased but not stripped.
extract_text_unstripped(elem, tag_name) ==
    LET found == findall(elem, tag_name)
    IN  IF found # <<>> /\ Head(found).text # <<>>
        THEN lower(Head(found).text)
        ELSE <<>>

\* (node.text or '').strip().lower() of the first match if it has text, else ''
extract_text(elem, tag_name) ==
    LET found == findall(elem, tag_name)
    IN  IF found # <<>> /\ Head(found).text # <<>>
        THEN lower(strip(Head(found).text))
        ELSE <<>>

\* The texts collect_terms puts into its set.
collect_terms(elem) ==
    {lower(strip(elem.desc[i].text)) :
        i \in {j \in 1..Len(elem.desc) :
                  /\ lower(local_name(elem.desc[j].tag)) = <<"t", "e", "r", "m">>
                  /\ elem.desc[j].text # <<>>}}

\* ' '.join(text of every match that has text), as for biospecimens and tissues.
join_all(elem, tag_name) ==
    LET found == SelectSeq(findall(elem, tag_name), LAMBDA node : node.text # <<>>)
    IN  join(<<" ">>, [i \in 1..Len(found) |-> lower(strip(found[i].text))])

\* s <= t in the order sorted() uses: by code point, a prefix first.
RECURSIVE str_leq(_, _)
str_leq(s, t) ==
    IF s = <<>> THEN TRUE
    ELSE IF t = <<>> THEN FALSE
    ELSE IF Head(s) = Head(t) THEN str_leq(Tail(s), Tail(t))
    ELSE CodePoint[Head(s)] < CodePoint[Head(t)]

\* sorted(terms)
RECURSIVE sorted(_)
sorted(terms) ==
    IF terms = {} THEN <<>>
    ELSE LET least == CHOOSE s \in terms : \A t \in terms : str_leq(s, t)
         IN  <<least>> \o sorted(terms \ {least})

\* The orders in which iterating a set of strings can produce its members:
\* set order follows the strings' hashes, which vary from process to process.
iteration_orders(terms) ==
    {order \in [1..Cardinality(terms) -> terms] :
        \A i, j \in 1..Cardinality(terms) : i # j => order[i] # order[j]}

\* mid = extract_text(elem, 'accession').upper()
record_id(elem) ==
    upper(extract_text(elem, <<"a", "c", "c", "e", "s", "s", "i", "o", "n">>))

\* classification = ' '.join([super_class, sub_class])
classification_of(elem) ==
    join(<<" ">>, << extract_text(elem, <<"s", "u", "p", "e", "r", "_", "c", "l", "a", "s", "s">>),
                     extract_text(elem, <<"s", "u", "b", "_", "c", "l", "a", "s", "s">>) >>)

\* combined_text, with the terms joined in the given iteration order.
combined_text(elem, order) ==
    join(<<" ">>, << extract_text(elem, <<"o", "r", "i", "g", "i", "n">>),
                     extract_text(elem, <<"d", "e", "s", "c", "r", "i", "p", "t", "i", "o", "n">>),
                     join_all(elem, <<"b", "i", "o", "s", "p", "e", "c", "i", "m", "e", "n">>),
                     join_all(elem, <<"t", "i", "s", "s", "u", "e">>),
                     classification_of(elem),
                     join(<<" ">>, order) >>)

\* The dictionary extract_metabolites yields for elem.
make_row(elem, order) ==
    LET terms == collect_terms(elem)
        conf == compute_confidence(combined_text(elem, order))
    IN  [HMDB_ID |-> record_id(elem),
         Name |-> extract_text(elem, <<"n", "a", "m", "e">>),
         Chemical_Formula |-> extract_text(elem, <<"c", "h", "e", "m", "i", "c", "a", "l", "_", "f", "o", "r", "m", "u", "l", "a">>),
         Average_Molecular_Weight |-> extract_text(elem, <<"a", "v", "e", "r", "a", "g", "e", "_", "m", "o", "l", "e", "c", "u", "l", "a", "r", "_", "w", "e", "i", "g", "h", "t">>),
         Monoisotopic_Molecular_Weight |-> extract_text(elem, <<"m", "o", "n", "i", "s", "o", "t", "o", "p", "i", "c", "_", "m", "o", "l", "e", "c", "u", "l", "a", "r", "_", "w", "e", "i", "g", "h", "t">>),
         SMILES |-> extract_text(elem, <<"s", "m", "i", "l", "e", "s">>),
         InChI |-> extract_text(elem, <<"i", "n", "c", "h", "i">>),
         InChIKey |-> extract_text(elem, <<"i", "n", "c", "h", "i", "k", "e", "y">>),
         Status |-> extract_text(elem, <<"s", "t", "a", "t", "u", "s">>),
         Origin |-> extract_text(elem, <<"o", "r", "i", "g", "i", "n">>),
         Ontology_Term_Count |-> Cardinality(terms),
         All_Ontology_Terms |-> join(<<";">>, sorted(terms)),
         Description |-> extract_text(elem, <<"d", "e", "s", "c", "r", "i", "p", "t", "i", "o", "n">>),
         Biospecimens |-> join_all(elem, <<"b", "i", "o", "s", "p", "e", "c", "i", "m", "e", "n">>),
         Tissues |-> join_all(elem, <<"t", "i", "s", "s", "u", "e">>),
         Classification |-> classification_of(elem),
         Endogenous_Confidence |-> format_conf(conf),
         Human_Endogenous_Flag |-> flag_of(conf)]

----------------------------------------------------------------------------
(* Input documents: up to MaxRecords record elements under one root        *)

MaxRecords ==
    2

\* An identifier and no other field.
RecIdOnly ==
    [tag |-> <<"m", "e", "t", "a", "b", "o", "l", "i", "t", "e">>,
     desc |-> << [tag |-> <<"a", "c", "c", "e", "s", "s", "i", "o", "n">>, text |-> <<"H", "M", "D", "B", "0", "0", "0", "0", "0", "0", "1">>] >>]

\* No identifier element at all.
RecNoId ==
    [tag |-> <<"m", "e", "t", "a", "b", "o", "l", "i", "t", "e">>,
     desc |-> << [tag |-> <<"n", "a", "m", "e">>, text |-> <<"W", "a", "t", "e", "r">>] >>]

\* A whitespace-only identifier; a second identifier element follows it.
RecBlankId ==
    [tag |-> <<"m", "e", "t", "a", "b", "o", "l", "i", "t", "e">>,
     desc |-> << [tag |-> <<"a", "c", "c", "e", "s", "s", "i", "o", "n">>, text |-> <<" ", "\n">>],
               [tag |-> <<"o", "r", "i", "g", "i", "n">>, text |-> <<"E", "n", "d", "o", "g", "e", "n", "o", "u", "s">>],
               [tag |-> <<"a", "c", "c", "e", "s", "s", "i", "o", "n">>, text |-> <<"H", "M", "D", "B", "0", "9">>] >>]

\* Namespaced tags; origin and description carry positive keywords.
RecHuman ==
    [tag |-> <<"{", "n", "}", "m", "e", "t", "a", "b", "o", "l", "i", "t", "e">>,
     desc |-> << [tag |-> <<"{", "n", "}", "a", "c", "c", "e", "s", "s", "i", "o", "n">>, text |-> <<" ", "h", "m", "d", "b", "0", "2", " ">>],
               [tag |-> <<"{", "n", "}", "n", "a", "m", "e">>, text |-> <<"U", "r", "e", "a">>],
               [tag |-> <<"{", "n", "}", "o", "r", "i", "g", "i", "n">>, text |-> <<"H", "o", "m", "o", " ", "s", "a", "p", "i", "e", "n", "s">>],
               [tag |-> <<"{", "n", "}", "d", "e", "s", "c", "r", "i", "p", "t", "i", "o", "n">>, text |-> <<"e", "n", "d", "o", "g", "e", "n", "o", "u", "s", " ", "m", "e", "t", "a", "b", "o", "l", "i", "t", "e", " ", "f", "o", "u", "n", "d", " ", "i", "n", " ", "h", "u", "m", "a", "n", " ", "b", "l", "o", "o", "d">>] >>]

\* One tissue; the record tag is capitalised.
RecLiver ==
    [tag |-> <<"M", "e", "t", "a", "b", "o", "l", "i", "t", "e">>,
     desc |-> << [tag |-> <<"a", "c", "c", "e", "s", "s", "i", "o", "n">>, text |-> <<"H", "M", "D", "B", "0", "3">>],
               [tag |-> <<"t", "i", "s", "s", "u", "e">>, text |-> <<"L", "i", "v", "e", "r">>] >>]

\* Two terms that form a keyword phrase only when adjacent in this order.
RecSplitTerms ==
    [tag |-> <<"m", "e", "t", "a", "b", "o", "l", "i", "t", "e">>,
     desc |-> << [tag |-> <<"a", "c", "c", "e", "s", "s", "i", "o", "n">>, text |-> <<"H", "M", "D", "B", "0", "4">>],
               [tag |-> <<"o", "n", "t", "o", "l", "o", "g", "y">>, text |-> <<"\n">>],
               [tag |-> <<"t", "e", "r", "m">>, text |-> <<"H", "o", "m", "o">>],
               [tag |-> <<"t", "e", "r", "m">>, text |-> <<"s", "a", "p", "i", "e", "n", "s">>] >>]

\* Two terms that normalise to the same string.
RecLipid ==
    [tag |-> <<"m", "e", "t", "a", "b", "o", "l", "i", "t", "e">>,
     desc |-> << [tag |-> <<"a", "c", "c", "e", "s", "s", "i", "o", "n">>, text |-> <<"H", "M", "D", "B", "0", "5">>],
               [tag |-> <<"T", "e", "r", "m">>, text |-> <<" ", "L", "i", "p", "i", "d", " ">>],
               [tag |-> <<"{", "n", "}", "t", "e", "r", "m">>, text |-> <<"l", "i", "p", "i", "d">>] >>]

\* A single term whose text is whitespace-only.
RecBlankTerm ==
    [tag |-> <<"m", "e", "t", "a", "b", "o", "l", "i", "t", "e">>,
     desc |-> << [tag |-> <<"a", "c", "c", "e", "s", "s", "i", "o", "n">>, text |-> <<"H", "M", "D", "B", "0", "6">>],
               [tag |-> <<"t", "e", "r", "m">>, text |-> <<" ">>] >>]

\* Negative and positive keywords, one of them in two fields.
RecDrug ==
    [tag |-> <<"m", "e", "t", "a", "b", "o", "l", "i", "t", "e">>,
     desc |-> << [tag |-> <<"a", "c", "c", "e", "s", "s", "i", "o", "n">>, text |-> <<"H", "M", "D", "B", "0", "7">>],
               [tag |-> <<"o", "r", "i", "g", "i", "n">>, text |-> <<"D", "r", "u", "g">>],
               [tag |-> <<"d", "e", "s", "c", "r", "i", "p", "t", "i", "o", "n">>, text |-> <<"t", "o", "x", "i", "c", " ", "d", "r", "u", "g", " ", "f", "r", "o", "m", " ", "a", " ", "p", "l", "a", "n", "t">>],
               [tag |-> <<"b", "i", "o", "s", "p", "e", "c", "i", "m", "e", "n">>, text |-> <<"U", "r", "i", "n", "e">>],
               [tag |-> <<"b", "i", "o", "s", "p", "e", "c", "i", "m", "e", "n">>, text |-> <<"B", "l", "o", "o", "d">>],
               [tag |-> <<"s", "u", "p", "e", "r", "_", "c", "l", "a", "s", "s">>, text |-> <<"O", "r", "g", "a", "n", "i", "c", " ", "a", "c", "i", "d", "s">>] >>]

Records ==
    {RecIdOnly, RecNoId, RecBlankId, RecHuman, RecLiver, RecSplitTerms, RecLipid, RecBlankTerm, RecDrug}

RootTag ==
    <<"h", "m", "d", "b">>

Documents ==
    UNION {[1..n -> Records] : n \in 0..MaxRecords}

\* The values --threshold takes in the model, in millionths.
Thresholds ==
    {700000, THRESHOLD_DEFAULT}

----------------------------------------------------------------------------
(* The run: main() pulling rows from the generator extract_metabolites     *)

VARIABLES
    sText,          \* the text handed to compute_confidence
    sParts,         \* the number of fragments joined into it
    sScore,         \* the net score
    sConf,          \* the confidence returned, in millionths
    sFlag           \* int(conf >= THRESHOLD_DEFAULT)

svars ==
    <<sText, sParts, sScore, sConf, sFlag>>

VARIABLES
    threshold,      \* args.threshold, in millionths
    doc,            \* the record elements of the input document, in order
    pc,             \* where main() is: start, open, pull, write, done, failed
    inp,            \* the input handle: unopened, open, closed
    pos,            \* the number of 'end' events iterparse has delivered
    suspended,      \* the generator is suspended at its yield
    materialised,   \* the records that have nodes built and not cleared
    yielded,        \* what the generator has yielded, with the scoring text
    header,         \* the header line has been written
    out,            \* the rows written after the header
    count,          \* main's counter
    stderr,         \* the messages printed to sys.stderr
    stdout,         \* the messages printed to sys.stdout
    status          \* running, exit0, exit1

runvars ==
    <<threshold, doc, pc, inp, pos, suspended, materialised, yielded,
      header, out, count, stderr, stdout, status>>

\* The 'end' events of a document whose records from the i-th on are still
\* to come: each record's descendants, the record, and last the root.
RECURSIVE events_from(_, _)
events_from(d, i) ==
    IF i > Len(d) THEN << [rec |-> 0, node |-> 0] >>
    ELSE [j \in 1..Len(d[i].desc) |-> [rec |-> i, node |-> j]]
         \o << [rec |-> i, node |-> 0] >>
         \o events_from(d, i + 1)

events ==
    events_from(doc, 1)

event_tag(e) ==
    IF e.rec = 0 THEN RootTag
    ELSE IF e.node = 0 THEN doc[e.rec].tag
    ELSE doc[e.rec].desc[e.node].tag

\* local_name(elem.tag).lower() != 'metabolite' is false
is_record_boundary(tag) ==
    lower(local_name(tag)) = <<"m", "e", "t", "a", "b", "o", "l", "i", "t", "e">>

\* Mutant of clear: the element left as it is.
clear_nothing(built, r) ==
    built

\* elem.clear() on the record r
clear(built, r) ==
    built \ {r}

\* Mutant of close_input: the handle not closed.
close_input_never(handle) ==
    handle

\* Leaving `with open_input(args.input) as inp`, on whatever path.
close_input(handle) ==
    "closed"

\* compute_confidence has been applied to the empty text.
score_start ==
    /\ sText = <<>>
    /\ sParts = 0
    /\ sScore = net_score(<<>>)
    /\ sConf = compute_confidence(<<>>)
    /\ sFlag = flag_of(compute_confidence(<<>>))

\* main() has parsed its arguments and not yet opened a file.
run_start(t, d) ==
    /\ threshold = t
    /\ doc = d
    /\ pc = "start"
    /\ inp = "unopened"
    /\ pos = 0
    /\ suspended = FALSE
    /\ materialised = {}
    /\ yielded = <<>>
    /\ header = FALSE
    /\ out = <<>>
    /\ count = 0
    /\ stderr = <<>>
    /\ stdout = <<>>
    /\ status = "running"

Init ==
    /\ \E t \in Thresholds, d \in Documents : run_start(t, d)
    /\ score_start

\* with args.out.open('w') ...: writer.writeheader(); count = 0
WriteHeader ==
    /\ pc = "start"
    /\ header' = TRUE
    /\ count' = 0
    /\ pc' = "open"
    /\ UNCHANGED <<svars, threshold, doc, inp, pos, suspended, materialised, yielded,
                   out, stderr, stdout, status>>

\* open_input returns a handle: a plain file, or the first .xml member of
\* a .zip; extract_metabolites(inp) creates the generator.
OpenInput ==
    /\ pc = "open"
    /\ \E kind \in {"xml", "zip"} :
         /\ inp' = "open"
         /\ pc' = "pull"
    /\ UNCHANGED <<svars, threshold, doc, pos, suspended, materialised, yielded,
                   header, out, count, stderr, stdout, status>>

\* open_input raises RuntimeError (a .zip with no .xml member); main
\* reports it and exits with status 1.
OpenInputFails ==
    /\ pc = "open"
    /\ stderr' = Append(stderr, "Error: No .xml inside")
    /\ status' = "exit1"
    /\ pc' = "failed"
    /\ UNCHANGED <<svars, threshold, doc, inp, pos, suspended, materialised, yielded,
                   header, out, count, stdout>>

\* next() on the suspended generator: it resumes after the yield and runs
\* elem.clear() on the record it yielded.
Resume ==
    /\ pc = "pull"
    /\ suspended
    /\ materialised' = clear(materialised, yielded[Len(yielded)].rec)
    /\ suspended' = FALSE
    /\ UNCHANGED <<svars, threshold, doc, pc, inp, pos, yielded, header, out, count,
                   stderr, stdout, status>>

\* The next event ends an element that is no record boundary: continue.
OtherElement ==
    /\ pc = "pull"
    /\ ~suspended
    /\ pos < Len(events)
    /\ LET e == events[pos + 1]
       IN  /\ ~is_record_boundary(event_tag(e))
           /\ materialised' = IF e.rec = 0 THEN materialised
                              ELSE materialised \cup {e.rec}
    /\ pos' = pos + 1
    /\ UNCHANGED <<svars, threshold, doc, pc, inp, suspended, yielded, header, out,
                   count, stderr, stdout, status>>

\* The next event ends a record with no identifier: elem.clear(); continue.
SkipRecord ==
    /\ pc = "pull"
    /\ ~suspended
    /\ pos < Len(events)
    /\ LET e == events[pos + 1]
       IN  /\ is_record_boundary(event_tag(e))
           /\ record_id(doc[e.rec]) = <<>>
           /\ materialised' = clear(materialised \cup {e.rec}, e.rec)
    /\ pos' = pos + 1
    /\ UNCHANGED <<svars, threshold, doc, pc, inp, suspended, yielded, header, out,
                   count, stderr, stdout, status>>

\* The next event ends a record with an identifier: the generator builds
\* the row and yields it to main's loop; the element stays uncleared.
YieldRecord ==
    /\ pc = "pull"
    /\ ~suspended
    /\ pos < Len(events)
    /\ LET e == events[pos + 1]
       IN  /\ is_record_boundary(event_tag(e))
           /\ record_id(doc[e.rec]) # <<>>
           /\ \E order \in iteration_orders(collect_terms(doc[e.rec])) :
                yielded' = Append(yielded,
                    [rec |-> e.rec,
                     row |-> make_row(doc[e.rec], order),
                     text |-> combined_text(doc[e.rec], order),
                     score |-> net_score(combined_text(doc[e.rec], order)),
                     conf |-> compute_confidence(combined_text(doc[e.rec], order))])
           /\ materialised' = materialised \cup {e.rec}
    /\ pos' = pos + 1
    /\ suspended' = TRUE
    /\ pc' = "write"
    /\ UNCHANGED <<svars, threshold, doc, inp, header, out, count, stderr, stdout,
                   status>>

\* writer.writerow(rec); count += 1; the progress line every 100 rows.
WriteRow ==
    /\ pc = "write"
    /\ out' = Append(out, yielded[Len(yielded)].row)
    /\ count' = count + 1
    /\ stderr' = IF (count + 1) % 100 = 0
                 THEN Append(stderr, "Processed")
                 ELSE stderr
    /\ pc' = "pull"
    /\ UNCHANGED <<svars, threshold, doc, inp, pos, suspended, materialised, yielded,
                   header, stdout, status>>

\* iterparse is exhausted: the generator returns, the for loop ends, both
\* with blocks are left and main prints the final count.
Finish ==
    /\ pc = "pull"
    /\ ~suspended
    /\ pos = Len(events)
    /\ inp' = close_input(inp)
    /\ stdout' = Append(stdout, "Done")
    /\ status' = "exit0"
    /\ pc' = "done"
    /\ UNCHANGED <<svars, threshold, doc, pos, suspended, materialised, yielded,
                   header, out, count, stderr>>

\* Reading or parsing the input fails where the generator asks iterparse
\* for the next event: the exception leaves the generator and the inner
\* with block, main prints it and calls sys.exit(1).
InputFails ==
    /\ pc = "pull"
    /\ ~suspended
    /\ inp' = close_input(inp)
    /\ stderr' = Append(stderr, "Error: ParseError")
    /\ status' = "exit1"
    /\ pc' = "failed"
    /\ UNCHANGED <<svars, threshold, doc, pos, suspended, materialised, yielded,
                   header, out, count, stdout>>

----------------------------------------------------------------------------
(* The scorer on its own: texts built from fragments, in any letter case   *)

MaxFragments ==
    2

Fragments ==
    { <<"W", "a", "t", "e", "r">>,
      <<"E", "N", "D", "O", "G", "E", "N", "O", "U", "S", " ", "c", "o", "m", "p", "o", "u", "n", "d">>,
      <<"t", "h", "i", "s", " ", "i", "s", " ", "e", "n", "d", "o", "g", "e", "n", "o", "u", "s", "n", "e", "s", "s">>,
      <<"e", "n", "d", "o", "g", "e", "n", "o", "u", "s">>,
      <<"h", "u", "m", "a", "n", " ", "b", "l", "o", "o", "d">>,
      <<"H", "o", "m", "o", " ", "s", "a", "p", "i", "e", "n", "s">>,
      <<"d", "e">>,
      <<"n", "o", "v", "o">>,
      <<"b", "i", "o", "s", "y", "n", "t", "h", "e", "s", "i", "z", "e", "d">>,
      <<"p", "r", "e", "s", "e", "n", "t", " ", "i", "n", " ", "h", "u", "m", "a", "n">>,
      <<"d", "r", "u", "g">>,
      <<"t", "o", "x", "i", "c", " ", "p", "l", "a", "n", "t">>,
      <<"l", "i", "v", "e", "r">>,
      <<>> }

\* Extend the text by one more space-joined fragment and score it.
ScoreText ==
    /\ sParts < MaxFragments
    /\ \E f \in Fragments :
         LET text == IF sParts = 0 THEN f ELSE join(<<" ">>, <<sText, f>>)
         IN  /\ sText' = text
             /\ sScore' = net_score(text)
             /\ sConf' = compute_confidence(text)
             /\ sFlag' = flag_of(compute_confidence(text))
    /\ sParts' = sParts + 1
    /\ UNCHANGED runvars

----------------------------------------------------------------------------
(* Specifications                                                          *)

\* A whole run of main() on one document.
Next ==
    \/ WriteHeader
    \/ OpenInput
    \/ OpenInputFails
    \/ Resume
    \/ OtherElement
    \/ SkipRecord
    \/ YieldRecord
    \/ WriteRow
    \/ Finish
    \/ InputFails

vars ==
    <<runvars, svars>>

Spec ==
    Init /\ [][Next]_vars

\* compute_confidence applied to texts, with no run of main().
ScoreInit ==
    /\ run_start(THRESHOLD_DEFAULT, <<>>)
    /\ score_start

ScoreNext ==
    ScoreText

SpecScore ==
    ScoreInit /\ [][ScoreNext]_vars

----------------------------------------------------------------------------
(* Vocabulary of the properties                                            *)

\* kw occurs in text: some slice of text equals kw.
occurs(kw, text) ==
    \E i \in 1..Len(text) :
        /\ i + Len(kw) - 1 <= Len(text)
        /\ SubSeq(text, i, i + Len(kw) - 1) = kw

RECURSIVE weight_sum(_, _)
weight_sum(keywords, present) ==
    IF present = {} THEN 0
    ELSE LET k == CHOOSE x \in present : TRUE
         IN  keywords[k].w + weight_sum(keywords, present \ {k})

\* The keywords of a table that occur in text, as indices into the table.
present_in(keywords, text) ==
    {k \in 1..Len(keywords) : occurs(keywords[k].kw, text)}

\* Sum of the weights of the positive keywords present, each once, minus
\* that of the negative keywords present.
expected_score(text) ==
    weight_sum(POSITIVE_KEYWORDS, present_in(POSITIVE_KEYWORDS, text))
    - weight_sum(NEGATIVE_KEYWORDS, present_in(NEGATIVE_KEYWORDS, text))

\* How many times kw occurs in text.
occurrences(kw, text) ==
    Cardinality({i \in 1..Len(text) :
                    /\ i + Len(kw) - 1 <= Len(text)
                    /\ SubSeq(text, i, i + Len(kw) - 1) = kw})

\* The text of the record's first identifier element, as written in the
\* document; <<>> when there is none.
identifier_text(elem) ==
    LET at == {j \in 1..Len(elem.desc) :
                  elem.desc[j].tag \in {<<"a", "c", "c", "e", "s", "s", "i", "o", "n">>, <<"{", "n", "}", "a", "c", "c", "e", "s", "s", "i", "o", "n">>}}
    IN  IF at = {} THEN <<>>
        ELSE elem.desc[CHOOSE j \in at : \A k \in at : j <= k].text

\* The identifier is not missing, empty or whitespace-only.
has_identifier(elem) ==
    \E k \in 1..Len(identifier_text(elem)) :
        identifier_text(elem)[k] \notin {" ", "\t", "\n"}

\* The records whose end event the walker has consumed, in document order.
records_done ==
    LET done == {events[k].rec : k \in {x \in 1..pos : events[x].node = 0}} \ {0}
    IN  [i \in 1..Cardinality(done) |-> i]

\* The number of semicolon-separated entries of s; none in the empty string.
entry_count(s) ==
    IF s = <<>> THEN 0
    ELSE 1 + Cardinality({i \in 1..Len(s) : s[i] = ";"})

\* The least and the greatest net score the tables allow.
lowest_score ==
    -weight_sum(NEGATIVE_KEYWORDS, 1..Len(NEGATIVE_KEYWORDS))

highest_score ==
    weight_sum(POSITIVE_KEYWORDS, 1..Len(POSITIVE_KEYWORDS))

\* The scorer's result is a confidence in [0, 1] for a score in range.
score_bounded ==
    /\ sConf >= 0
    /\ sConf <= 1000000
    /\ sScore \in lowest_score..highest_score
    /\ sConf = sigmoid(sScore)

\* The scored text matches no keyword.
no_match ==
    /\ present_in(POSITIVE_KEYWORDS, sText) = {}
    /\ present_in(NEGATIVE_KEYWORDS, sText) = {}

----------------------------------------------------------------------------
(* Properties                                                              *)

\* C1: every emitted row has Human_Endogenous_Flag = 1 exactly when the
\* record's confidence is >= the threshold passed as --threshold.
C1_FlagFollowsThreshold ==
    \A i \in 1..Len(out) :
        (out[i].Human_Endogenous_Flag = 1) <=> (yielded[i].conf >= threshold)

\* C2: the rows yielded are exactly, in document order, the records consumed
\* so far whose identifier is not missing, empty or whitespace-only; each
\* row has a non-empty HMDB_ID; there are never more rows than records; and
\* a run that ends normally has written one row for every such record.
C2_RowsAreRecordsWithId ==
    /\ [i \in 1..Len(yielded) |-> yielded[i].rec]
         = SelectSeq(records_done, LAMBDA r : has_identifier(doc[r]))
    /\ \A i \in 1..Len(yielded) : yielded[i].row.HMDB_ID # <<>>
    /\ Len(yielded) <= Len(records_done)
    /\ \A i \in 1..Len(out) : out[i] = yielded[i].row
    /\ pc = "done" =>
         /\ Len(records_done) = Len(doc)
         /\ Len(out) = Len(yielded)

\* C2 witness: a finished run over two records, the first with a
\* whitespace-only identifier and skipped, the second written.
C2_Witness ==
    /\ pc = "done"
    /\ Len(doc) = 2
    /\ doc[1] = RecBlankId
    /\ Len(out) = 1
    /\ yielded[1].rec = 2

\* C3: in every emitted row Ontology_Term_Count equals the number of
\* semicolon-separated entries of All_Ontology_Terms.
C3_TermCountMatchesEntries ==
    \A i \in 1..Len(out) :
        out[i].Ontology_Term_Count = entry_count(out[i].All_Ontology_Terms)

\* C4: a record with an identifier and no other field gives a row in which
\* every text field is empty, the term count is 0, the confidence is
\* "0.500" and the flag is 0.
C4_AbsentFieldsEmpty ==
    \A i \in 1..Len(out) :
        Len(doc[yielded[i].rec].desc) = 1 =>
            /\ \A f \in {"Name", "Chemical_Formula", "Average_Molecular_Weight",
                         "Monoisotopic_Molecular_Weight", "SMILES", "InChI",
                         "InChIKey", "Status", "Origin", "Description",
                         "Biospecimens", "Tissues", "Classification",
                         "All_Ontology_Terms"} : out[i][f] = <<>>
            /\ out[i].Ontology_Term_Count = 0
            /\ out[i].Endogenous_Confidence = <<"0", ".", "5", "0", "0">>
            /\ out[i].Human_Endogenous_Flag = 0

\* C5: the net score of every yielded record is the sum of the weights of
\* the positive keywords present in its scoring text minus that of the
\* negative keywords present, each keyword once; the scoring text is one
\* blob that begins with the joined origin, description, biospecimens,
\* tissues and classification of the row.
C5_ScoreCountsEachKeywordOnce ==
    \A i \in 1..Len(yielded) :
        LET row == yielded[i].row
            fields == row.Origin \o <<" ">> \o row.Description \o <<" ">>
                      \o row.Biospecimens \o <<" ">> \o row.Tissues \o <<" ">>
                      \o row.Classification \o <<" ">>
        IN  /\ yielded[i].score = expected_score(yielded[i].text)
            /\ Len(fields) <= Len(yielded[i].text)
            /\ SubSeq(yielded[i].text, 1, Len(fields)) = fields

\* C5 witness: a yielded record in which the keyword "drug" occurs twice,
\* in origin and in description, and whose net score is -1.
C5_Witness ==
    \E i \in 1..Len(yielded) :
        /\ occurs(<<"d", "r", "u", "g">>, yielded[i].row.Origin)
        /\ occurs(<<"d", "r", "u", "g">>, yielded[i].row.Description)
        /\ occurrences(<<"d", "r", "u", "g">>, yielded[i].text) = 2
        /\ yielded[i].score = -1

\* C6 as claimed: the scorer's net score counts every keyword that occurs
\* in the text in any letter case.
C6_CaseInsensitiveMatch ==
    sScore = expected_score(lower(sText))

\* C6 amended: the scorer's net score counts every keyword that occurs in
\* the text as written (case-sensitively, also inside a longer word), each
\* once; on the lower-cased text it counts every keyword that occurs in any
\* letter case.
C6_CaseSensitiveMatch ==
    /\ sScore = expected_score(sText)
    /\ net_score(lower(sText)) = expected_score(lower(sText))

\* C6 witness: "ENDOGENOUS compound" scores 0 as written and 2 lower-cased.
C6_Witness ==
    /\ sText = <<"E", "N", "D", "O", "G", "E", "N", "O", "U", "S", " ", "c", "o", "m", "p", "o", "u", "n", "d">>
    /\ sScore = 0
    /\ net_score(lower(sText)) = 2

\* C7: the confidence lies in [0, 1]; the net score lies within the sums
\* of the tables' weights; over that whole range the confidence never
\* decreases as the net score grows; a text with no keyword match has
\* confidence 0.5 and flag 0; and a step that adds positive-keyword matches
\* and changes no other match does not lower the confidence.
C7_ConfidenceBoundedMonotone ==
    [][ /\ score_bounded
        /\ score_bounded'
        /\ lowest_score = -20
        /\ highest_score = 33
        /\ \A a \in lowest_score..highest_score : \A b \in a..highest_score :
               /\ sigmoid(a) <= sigmoid(b)
               /\ sigmoid(a) \in 0..1000000
        /\ no_match => (sConf = 500000 /\ sFlag = 0)
        /\ no_match' => (sConf' = 500000 /\ sFlag' = 0)
        /\ ( /\ present_in(POSITIVE_KEYWORDS, sText)
                  \subseteq present_in(POSITIVE_KEYWORDS, sText')
             /\ present_in(NEGATIVE_KEYWORDS, sText)
                  = present_in(NEGATIVE_KEYWORDS, sText') )
           => sConf' >= sConf
      ]_vars

\* C7 witness: "drug" scored below 0.5, then "endogenous" added to it,
\* which brings the confidence up to 0.5 with both keywords matched.
C7_Witness ==
    /\ sParts = 2
    /\ sText = <<"d", "r", "u", "g", " ", "e", "n", "d", "o", "g", "e", "n", "o", "u", "s">>
    /\ sScore = 0
    /\ sConf = 500000

\* C8: a record that has been completed is cleared before the walker takes
\* the next parse event, and at no time do two records have nodes built.
C8_OneRecordMaterialised ==
    [][ /\ pos' # pos => materialised \cap (1..Len(records_done)) = {}
        /\ Cardinality(materialised) <= 1
        /\ Cardinality(materialised') <= 1
      ]_vars

\* C8 witness: the whole of a two-record document consumed, one record
\* skipped and one yielded, and nothing left built.
C8_Witness ==
    /\ pos = Len(events)
    /\ Len(doc) = 2
    /\ Len(yielded) = 1
    /\ ~suspended
    /\ materialised = {}

\* C9: when the input fails, main reports the error and exits with status
\* 1, writes nothing more, leaves the header and the rows already written
\* as they are and closes the input; and consuming a record with no
\* identifier neither reports an error nor ends the run.
C9_FailureKeepsOutput ==
    /\ [](pc = "failed" => ~ENABLED Next)
    /\ [][ /\ (pc = "pull" /\ pc' = "failed") =>
                  /\ status' = "exit1"
                  /\ Len(stderr') = Len(stderr) + 1
                  /\ stderr'[Len(stderr')] = "Error: ParseError"
                  /\ header'
                  /\ out' = out
                  /\ count' = Len(out)
                  /\ inp' = "closed"
           /\ ( /\ pos' = pos + 1
                /\ events[pos'].node = 0
                /\ events[pos'].rec # 0
                /\ ~has_identifier(doc[events[pos'].rec]) ) =>
                  /\ pc' = "pull"
                  /\ status' = "running"
                  /\ stderr' = stderr
                  /\ out' = out
         ]_vars

\* C9 witness: the input failed after one row had been written and before
\* the document was consumed.
C9_Witness ==
    /\ pc = "failed"
    /\ Len(out) = 1
    /\ pos < Len(events)
    /\ inp = "closed"
    /\ status = "exit1"

\* C10: the net score of a yielded record is the same for every order in
\* which its term set can be iterated.
C10_ScoreIndependentOfTermOrder ==
    \A i \in 1..Len(yielded) :
        \A order \in iteration_orders(collect_terms(doc[yielded[i].rec])) :
            net_score(combined_text(doc[yielded[i].rec], order)) = yielded[i].score

============================================================================
